---- MODULE Spec2Model ----
(***************************************************************************)
(* Model of the dual-camera hand/face tracking pipeline:                   *)
(*   src/src/app/archive/main2.py   DualCameraHandFaceSoundTracker         *)
(*   src/src/utils/hand_processor.py HandProcessor                         *)
(* One orchestrating thread (run(), or the caller of HandProcessor), one   *)
(* worker thread per modality, bounded queue.Queue channels between them   *)
(* and a shared threading.Event `running`.                                 *)
(***************************************************************************)
EXTENDS Integers, Sequences, FiniteSets, TLC

VARIABLES app, cameraOk, audioOk, pc, running, frameQ, resultQ, wpc, wframe,
          wresults,
          captured, cur, got, keyPressed, log, drainIdx, endCalls, cleanUps,
          nones, emitted, skipped,
          handSamples, failedReads, detectors,
          fn, arg, ret,
          hand_trajectory_data, face_orientation_data, clock

\* what the run leaves behind: samples in the hand trajectory log, the
\* camera reads that had failed in a row when the main loop ended, and the
\* detector instances (mp Hands / FaceMesh) by the place that created them
obsVars == <<handSamples, failedReads, detectors>>

\* a call of one of the computing functions: its name (or the position
\* inside it), its inputs, its outputs
fnVars == <<fn, arg, ret>>

\* the session recorder: self.hand_trajectory_data (hand id -> columns) and
\* the clock its timestamps are read from
recVars == <<hand_trajectory_data, face_orientation_data, clock>>

vars == <<app, cameraOk, audioOk, pc, running, frameQ, resultQ, wpc, wframe,
          wresults,
          captured, cur, got, keyPressed, log, drainIdx, endCalls, cleanUps,
          nones, emitted, skipped, obsVars, fnVars, recVars>>

\* ---------------------------------------------------------------- bounds
\* frames a camera (or the caller of put_to_queue) delivers before the stream ends
MaxFrames == 4
\* None sentinels the caller of put_to_queue passes
MaxNone == 1
\* calls of HandProcessor.clean_up() by its owner
MaxCleanUps == 2

\* samples in the face orientation log, and in the hand trajectory log, at
\* the end of a run
MaxLog == 2
\* landmark coordinates are drawn from the grid 0..MaxCoord
MaxCoord == 3
\* landmark-9-to-wrist distances are drawn from 0..MaxDist, in hundredths of
\* the normalised image size
MaxDist == 40

\* horizontal positions seen by the second camera are drawn from 0..MaxPos,
\* in hundredths of the image width
MaxPos == 100

\* capacity of each of the queue.Queue channels.  The source creates them with
\* maxsize=10; the model keeps the capacity a parameter and scales it
\* down, every property being stated relative to this capacity
QueueMaxSize == 2

\* ------------------------------------------------------------- constants
\* the None sentinel of the frame queues
None == 0
\* frame tag used when the stream is modelled without frame numbers
Untagged == 1

Workers == {"face", "hand"}

\* who creates a detector: the constructor (self.hands) and each worker
\* thread (`with ... as hands`)
DetectorOwners == {"ctor"} \cup Workers

\* queues in the order the shutdown code drains them
DrainOrder ==
  IF app = "main2"
  THEN << <<"frame", "face">>, <<"frame", "hand">>,
          <<"result", "face">>, <<"result", "hand">> >>
  ELSE << <<"frame", "hand">>, <<"result", "hand">> >>

\* ------------------------------------------------------------ queue.Queue
\* (variant: a put that never finds the queue full)
QFullNever(q) == FALSE
QFull(q) == Len(q) >= QueueMaxSize
\* (variant: a put at the consumer's end, a LIFO channel)
QPutFront(q, x) == <<x>> \o q
QPut(q, x) == Append(q, x)
QHead(q) == Head(q)
QGet(q) == Tail(q)

\* ------------------------------------------------------------------ Init
\* no tracker object constructed yet
PipelineInit ==
  /\ app \in {"main2", "hand_processor"}
  /\ cameraOk \in [Workers -> BOOLEAN]
  /\ audioOk \in BOOLEAN
  /\ (app = "hand_processor" => cameraOk = [m \in Workers |-> TRUE])
  /\ pc = "new"
  /\ running = FALSE
  /\ frameQ = [m \in Workers |-> << >>]
  /\ resultQ = [m \in Workers |-> << >>]
  /\ wpc = [m \in Workers |-> "idle"]
  /\ wframe = [m \in Workers |-> None]
  /\ wresults = [m \in Workers |-> None]
  /\ captured = 0
  /\ cur = [m \in Workers |-> None]
  /\ got = [m \in Workers |-> None]
  /\ keyPressed = FALSE
  /\ log = << >>
  /\ drainIdx = 0
  /\ endCalls = 0
  /\ cleanUps = 0
  /\ nones = 0
  /\ emitted = [m \in Workers |-> 0]
  /\ skipped = [m \in Workers |-> FALSE]
  /\ handSamples = 0
  /\ failedReads = 0
  /\ hand_trajectory_data = << >>
  /\ face_orientation_data = << >>
  /\ clock = 0
  /\ detectors = [d \in DetectorOwners |-> "none"]

Init ==
  /\ PipelineInit
  /\ fn = "none"
  /\ arg = << >>
  /\ ret = << >>

\* ================================================================ workers
\* (variant: a loop that does not test the flag, `while True:`)
WorkerCheckIgnoresFlag(m) ==
  /\ wpc[m] = "check"
  /\ wpc' = [wpc EXCEPT ![m] = "get"]
  /\ UNCHANGED <<app, cameraOk, audioOk, pc, running, frameQ, resultQ, wframe,
                 wresults,
                 captured, cur, got, keyPressed, log, drainIdx, endCalls,
                 cleanUps, nones, emitted, skipped, obsVars, fnVars, recVars>>

\* while self.running.is_set(): ...; leaving the loop leaves the `with`
\* block, which closes the worker's detector
WorkerCheck(m) ==
  /\ wpc[m] = "check"
  /\ wpc' = [wpc EXCEPT ![m] = IF running THEN "get" ELSE "stopped"]
  /\ detectors' = IF running THEN detectors
                  ELSE [detectors EXCEPT ![m] = "closed"]
  /\ UNCHANGED <<app, cameraOk, audioOk, pc, running, frameQ, resultQ, wframe,
                 wresults,
                 captured, cur, got, keyPressed, log, drainIdx, endCalls,
                 cleanUps, nones, emitted, skipped, handSamples, failedReads,
                 fnVars, recVars>>

\* frame = queue.get(timeout=1.0); queue.Empty -> continue; None -> continue
WorkerGet(m) ==
  /\ wpc[m] = "get"
  /\ IF frameQ[m] = << >>
     THEN /\ wpc' = [wpc EXCEPT ![m] = "check"]
          /\ UNCHANGED <<frameQ, wframe, skipped>>
     ELSE /\ frameQ' = [frameQ EXCEPT ![m] = QGet(frameQ[m])]
          /\ IF QHead(frameQ[m]) = None
             THEN /\ wpc' = [wpc EXCEPT ![m] = "check"]
                  /\ skipped' = [skipped EXCEPT ![m] = TRUE]
                  /\ UNCHANGED wframe
             ELSE /\ wpc' = [wpc EXCEPT ![m] = "detect"]
                  /\ wframe' = [wframe EXCEPT ![m] = QHead(frameQ[m])]
                  /\ UNCHANGED skipped
  /\ UNCHANGED <<app, cameraOk, audioOk, pc, running, resultQ, wresults,
                 captured, cur, got, keyPressed, log, drainIdx, endCalls,
                 cleanUps, nones, emitted, obsVars, fnVars, recVars>>

\* (variant: no inner try/except, the exception ends the thread)
WorkerDetectEscapes(m, ok) ==
  /\ wpc[m] = "detect"
  /\ IF ok
     THEN /\ wpc' = [wpc EXCEPT ![m] = "put"]
          /\ wresults' = [wresults EXCEPT ![m] = wframe[m]]
          /\ UNCHANGED <<wframe, skipped, detectors>>
     ELSE /\ wpc' = [wpc EXCEPT ![m] = "stopped"]
          /\ UNCHANGED wresults
          /\ wframe' = [wframe EXCEPT ![m] = None]
          /\ skipped' = [skipped EXCEPT ![m] = TRUE]
          /\ detectors' = [detectors EXCEPT ![m] = "closed"]
  /\ UNCHANGED <<app, cameraOk, audioOk, pc, running, frameQ, resultQ,
                 captured, cur, got, keyPressed, log, drainIdx, endCalls,
                 cleanUps, nones, emitted, handSamples, failedReads, fnVars, recVars>>

\* frame_copy = frame.copy(); results = detector.process(frame_copy): the
\* landmarks are those of the frame held (ok), or the call raises and the
\* inner `except Exception: continue` skips the frame
WorkerDetect(m, ok) ==
  /\ wpc[m] = "detect"
  /\ IF ok
     THEN /\ wpc' = [wpc EXCEPT ![m] = "put"]
          /\ wresults' = [wresults EXCEPT ![m] = wframe[m]]
          /\ UNCHANGED <<wframe, skipped>>
     ELSE /\ wpc' = [wpc EXCEPT ![m] = "check"]
          /\ UNCHANGED wresults
          /\ wframe' = [wframe EXCEPT ![m] = None]
          /\ skipped' = [skipped EXCEPT ![m] = TRUE]
  /\ UNCHANGED <<app, cameraOk, audioOk, pc, running, frameQ, resultQ,
                 captured, cur, got, keyPressed, log, drainIdx, endCalls,
                 cleanUps, nones, emitted, obsVars, fnVars, recVars>>

\* (variant: the pair is built from the frame the main loop read last, a
\* frame attribute shared between the threads)
WorkerPutSharedFrame(m) ==
  /\ wpc[m] = "put"
  /\ ~QFull(resultQ[m])
  /\ resultQ' = [resultQ EXCEPT ![m] = QPut(resultQ[m], <<wresults[m], cur[m]>>)]
  /\ wframe' = [wframe EXCEPT ![m] = None]
  /\ wresults' = [wresults EXCEPT ![m] = None]
  /\ wpc' = [wpc EXCEPT ![m] = "check"]
  /\ emitted' = [emitted EXCEPT ![m] = IF running THEN 0 ELSE emitted[m] + 1]
  /\ skipped' = [skipped EXCEPT ![m] = FALSE]
  /\ UNCHANGED <<app, cameraOk, audioOk, pc, running, frameQ,
                 captured, cur, got, keyPressed, log, drainIdx, endCalls,
                 cleanUps, nones, obsVars, fnVars, recVars>>

\* result_queue.put((results, frame_copy)): no timeout, blocks while full.
\* A queued result is the pair <<frame the landmarks were detected on,
\* frame>>; both locals are assigned anew before the next put
WorkerPut(m) ==
  /\ wpc[m] = "put"
  /\ ~QFull(resultQ[m])
  /\ resultQ' = [resultQ EXCEPT ![m] = QPut(resultQ[m], <<wresults[m], wframe[m]>>)]
  /\ wframe' = [wframe EXCEPT ![m] = None]
  /\ wresults' = [wresults EXCEPT ![m] = None]
  /\ wpc' = [wpc EXCEPT ![m] = "check"]
  /\ emitted' = [emitted EXCEPT ![m] = IF running THEN 0 ELSE emitted[m] + 1]
  /\ skipped' = [skipped EXCEPT ![m] = FALSE]
  /\ UNCHANGED <<app, cameraOk, audioOk, pc, running, frameQ,
                 captured, cur, got, keyPressed, log, drainIdx, endCalls,
                 cleanUps, nones, obsVars, fnVars, recVars>>

WorkerStep(m) ==
  \/ WorkerCheck(m) \/ WorkerGet(m) \/ WorkerPut(m)
  \/ \E ok \in BOOLEAN : WorkerDetect(m, ok)

WorkerNext == \E m \in Workers : WorkerStep(m)

\* ===================================================== main2.py orchestrator
LoopPcs == {"loop", "put_face", "put_hand", "get_face", "get_hand", "process"}

\* DualCameraHandFaceSoundTracker.__init__: the Event is set, the captures are
\* created (cv2.VideoCapture never raises), the sound generator may raise
Construct ==
  /\ app = "main2"
  /\ pc = "new"
  /\ running' = TRUE
  /\ pc' = IF audioOk THEN "constructed" ELSE "aborted"
  /\ UNCHANGED <<app, cameraOk, audioOk, frameQ, resultQ, wpc, wframe, wresults,
                 captured, cur, got, keyPressed, log, drainIdx, endCalls,
                 cleanUps, nones, emitted, skipped, obsVars, fnVars, recVars>>

\* run(): face_process_thread.start(); hand_process_thread.start()
StartThreads ==
  /\ pc = "constructed"
  /\ wpc' = [m \in Workers |-> "check"]
  /\ detectors' = [d \in DetectorOwners |->
                     IF d \in Workers THEN "open" ELSE detectors[d]]
  /\ pc' = "loop"
  /\ UNCHANGED <<app, cameraOk, audioOk, running, frameQ, resultQ, wframe,
                 wresults,
                 captured, cur, got, keyPressed, log, drainIdx, endCalls,
                 cleanUps, nones, emitted, skipped, handSamples, failedReads,
                 fnVars, recVars>>

\* while isOpened() and isOpened() and running: read both cameras.  A read
\* that fails (ret False) breaks out of the loop.  `tag` is what the model
\* keeps of the two frames read; a numbered stream ends after MaxFrames reads
\* (variant: a first failed read is retried, the second in a row ends the loop)
CaptureAsRetrying(tag, numbered) ==
  /\ pc = "loop"
  /\ IF ~(cameraOk["face"] /\ cameraOk["hand"] /\ running)
     THEN /\ pc' = "fin_clear"
          /\ UNCHANGED <<cur, captured, failedReads>>
     ELSE \/ /\ pc' = IF failedReads >= 1 THEN "fin_clear" ELSE "loop"
             /\ failedReads' = failedReads + 1
             /\ UNCHANGED <<cur, captured>>
          \/ /\ numbered => captured < MaxFrames
             /\ cur' = [m \in Workers |-> tag]
             /\ captured' = IF numbered THEN captured + 1 ELSE captured
             /\ pc' = "put_face"
             /\ failedReads' = 0
  /\ UNCHANGED <<app, cameraOk, audioOk, running, frameQ, resultQ, wpc, wframe, wresults,
                 got, keyPressed, log, drainIdx, endCalls,
                 cleanUps, nones, emitted, skipped, handSamples, detectors,
                 fnVars, recVars>>

CaptureAs(tag, numbered) ==
  /\ pc = "loop"
  /\ IF ~(cameraOk["face"] /\ cameraOk["hand"] /\ running)
     THEN /\ pc' = "fin_clear"
          /\ UNCHANGED <<cur, captured, failedReads>>
     ELSE \/ /\ pc' = "fin_clear"          \* face_ret or hand_ret is False
             /\ failedReads' = failedReads + 1
             /\ UNCHANGED <<cur, captured>>
          \/ /\ numbered => captured < MaxFrames
             /\ cur' = [m \in Workers |-> tag]
             /\ captured' = IF numbered THEN captured + 1 ELSE captured
             /\ pc' = "put_face"
             /\ UNCHANGED failedReads
  /\ UNCHANGED <<app, cameraOk, audioOk, running, frameQ, resultQ, wpc, wframe, wresults,
                 got, keyPressed, log, drainIdx, endCalls,
                 cleanUps, nones, emitted, skipped, handSamples, detectors,
                 fnVars, recVars>>

\* frames without identity, stream of any length
Capture == CaptureAs(Untagged, FALSE)
\* frames numbered by the tick they were read at
CaptureNumbered == CaptureAs(captured + 1, TRUE)

\* (variant: a put without timeout, which waits for a free slot)
PutFrameNoTimeout(m) ==
  /\ pc = "put_" \o m
  /\ ~QFull(frameQ[m])
  /\ frameQ' = [frameQ EXCEPT ![m] = QPut(frameQ[m], cur[m])]
  /\ pc' = IF m = "face" THEN "put_hand" ELSE "get_face"
  /\ UNCHANGED <<app, cameraOk, audioOk, running, resultQ, wpc, wframe, wresults,
                 captured, cur, got, keyPressed, log, drainIdx, endCalls,
                 cleanUps, nones, emitted, skipped, obsVars, fnVars, recVars>>

\* self.<m>_frame_queue.put(frame.copy(), timeout=0.1); queue.Full -> continue
PutFrame(m) ==
  /\ pc = "put_" \o m
  /\ IF QFull(frameQ[m])
     THEN /\ pc' = "loop"
          /\ UNCHANGED frameQ
     ELSE /\ frameQ' = [frameQ EXCEPT ![m] = QPut(frameQ[m], cur[m])]
          /\ pc' = IF m = "face" THEN "put_hand" ELSE "get_face"
  /\ UNCHANGED <<app, cameraOk, audioOk, running, resultQ, wpc, wframe, wresults,
                 captured, cur, got, keyPressed, log, drainIdx, endCalls,
                 cleanUps, nones, emitted, skipped, obsVars, fnVars, recVars>>

\* self.<m>_result_queue.get(timeout=0.1); queue.Empty -> continue
GetResult(m) ==
  /\ pc = "get_" \o m
  /\ IF resultQ[m] = << >>
     THEN /\ pc' = "loop"
          /\ got' = [w \in Workers |-> None]
          /\ UNCHANGED resultQ
     ELSE /\ got' = [got EXCEPT ![m] = QHead(resultQ[m])[2]]
          /\ resultQ' = [resultQ EXCEPT ![m] = QGet(resultQ[m])]
          /\ pc' = IF m = "face" THEN "get_hand" ELSE "process"
  /\ UNCHANGED <<app, cameraOk, audioOk, running, frameQ, wpc, wframe, wresults,
                 captured, cur, keyPressed, log, drainIdx, endCalls,
                 cleanUps, nones, emitted, skipped, obsVars, fnVars, recVars>>

\* landmark processing, video write, imshow; if cv2.waitKey(3) == ord('q'): break.
\* for hand_landmarks in multi_hand_landmarks: _process_hand_data(...) appends
\* one sample per hand seen; the frames of the modelled stream show one hand
\* each.  The sample count is kept for numbered (finite) streams
ProcessAs(numbered) ==
  /\ pc = "process"
  /\ pc' = IF keyPressed THEN "fin_clear" ELSE "loop"
  /\ keyPressed' = FALSE
  /\ got' = [w \in Workers |-> None]
  /\ handSamples' = IF numbered THEN handSamples + 1 ELSE handSamples
  /\ UNCHANGED <<app, cameraOk, audioOk, running, frameQ, resultQ, wpc, wframe, wresults,
                 captured, cur, log, drainIdx, endCalls,
                 cleanUps, nones, emitted, skipped, failedReads, detectors,
                 fnVars, recVars>>

Process == ProcessAs(FALSE)
ProcessNumbered == ProcessAs(TRUE)

\* the user presses 'q' in a window while the main loop runs
UserQuit ==
  /\ app = "main2"
  /\ pc \in LoopPcs
  /\ ~keyPressed
  /\ keyPressed' = TRUE
  /\ UNCHANGED <<app, cameraOk, audioOk, pc, running, frameQ, resultQ, wpc,
                 wframe, wresults, captured, cur, got, log, drainIdx, endCalls,
                 cleanUps, nones, emitted, skipped, obsVars, fnVars, recVars>>

\* except Exception: an error raised inside the main loop body
MainLoopError ==
  /\ pc \in {"loop", "process"}
  /\ pc' = "fin_clear"
  /\ UNCHANGED <<app, cameraOk, audioOk, running, frameQ, resultQ, wpc, wframe, wresults,
                 captured, cur, got, keyPressed, log, drainIdx, endCalls,
                 cleanUps, nones, emitted, skipped, obsVars, fnVars, recVars>>

\* ------------------------------------------------- shutdown (finally block)
\* self.running.clear()
FinClear ==
  /\ pc = "fin_clear"
  /\ running' = FALSE
  /\ log' = <<"clear">>
  /\ drainIdx' = 1
  /\ pc' = "drain"
  /\ UNCHANGED <<app, cameraOk, audioOk, frameQ, resultQ, wpc, wframe, wresults,
                 captured, cur, got, keyPressed, endCalls,
                 cleanUps, nones, emitted, skipped, obsVars, fnVars, recVars>>

\* for q in [...]: while not q.empty(): q.get_nowait()
DrainStep ==
  /\ pc = "drain"
  /\ LET kind == DrainOrder[drainIdx][1]
         m == DrainOrder[drainIdx][2]
         q == IF kind = "frame" THEN frameQ[m] ELSE resultQ[m]
     IN IF q # << >>
        THEN /\ frameQ' = IF kind = "frame"
                          THEN [frameQ EXCEPT ![m] = QGet(q)] ELSE frameQ
             /\ resultQ' = IF kind = "result"
                           THEN [resultQ EXCEPT ![m] = QGet(q)] ELSE resultQ
             /\ UNCHANGED <<pc, drainIdx, log>>
        ELSE /\ UNCHANGED <<frameQ, resultQ>>
             /\ IF drainIdx < Len(DrainOrder)
                THEN /\ drainIdx' = drainIdx + 1
                     /\ UNCHANGED <<pc, log>>
                ELSE /\ drainIdx' = 0
                     /\ log' = Append(log, "drain")
                     /\ pc' = IF app = "main2" THEN "join_face" ELSE "join"
  /\ UNCHANGED <<app, cameraOk, audioOk, running, wpc, wframe, wresults,
                 captured, cur, got, keyPressed, endCalls,
                 cleanUps, nones, emitted, skipped, obsVars, fnVars, recVars>>

\* self.<m>_process_thread.join(timeout=2.0): returns when the worker has
\* stopped or when the timeout expires
JoinWorker(m) ==
  /\ pc = "join_" \o m
  /\ log' = Append(log, "join")
  /\ pc' = IF m = "face" THEN "join_hand" ELSE "save"
  /\ UNCHANGED <<app, cameraOk, audioOk, running, frameQ, resultQ, wpc, wframe, wresults,
                 captured, cur, got, keyPressed, drainIdx, endCalls,
                 cleanUps, nones, emitted, skipped, obsVars, fnVars, recVars>>

\* _save_data(), _create_face_orientation_plots(),
\* _create_3d_trajectory_animation(): each swallows its own exceptions
Finalise(step, next) ==
  /\ pc = step
  /\ log' = Append(log, step)
  /\ pc' = next
  /\ UNCHANGED <<app, cameraOk, audioOk, running, frameQ, resultQ, wpc, wframe, wresults,
                 captured, cur, got, keyPressed, drainIdx, endCalls,
                 cleanUps, nones, emitted, skipped, obsVars, fnVars, recVars>>

SaveData == Finalise("save", "plots")
CreatePlots == Finalise("plots", "anim")
CreateAnimation == Finalise("anim", "sound_end")

\* self.sound_generator.end()
SoundEnd ==
  /\ pc = "sound_end"
  /\ endCalls' = endCalls + 1
  /\ log' = Append(log, "end")
  /\ pc' = IF app = "main2" THEN "release_writers" ELSE "hp_ready"
  /\ UNCHANGED <<app, cameraOk, audioOk, running, frameQ, resultQ, wpc, wframe, wresults,
                 captured, cur, got, keyPressed, drainIdx,
                 cleanUps, nones, emitted, skipped, obsVars, fnVars, recVars>>

\* video writers released, then the captures, then destroyAllWindows
ReleaseWriters == Finalise("release_writers", "release_captures")
ReleaseCaptures == Finalise("release_captures", "done")

OrchShutdown ==
  \/ FinClear \/ DrainStep \/ JoinWorker("face") \/ JoinWorker("hand")
  \/ SaveData \/ CreatePlots \/ CreateAnimation \/ SoundEnd
  \/ ReleaseWriters \/ ReleaseCaptures

OrchLoop ==
  \/ PutFrame("face") \/ PutFrame("hand")
  \/ GetResult("face") \/ GetResult("hand")
  \/ MainLoopError

OrchNext ==
  Construct \/ StartThreads \/ Capture \/ Process \/ OrchLoop \/ OrchShutdown
OrchNextNumbered ==
  \/ Construct \/ StartThreads \/ CaptureNumbered \/ ProcessNumbered
  \/ OrchLoop \/ OrchShutdown

\* ================================================ hand_processor.py owner
\* HandProcessor.__init__: the sound generator is created first (may raise),
\* then the detector self.hands = mp_hands.Hands(...), the queues, the Event
\* (set) and the thread object
HPConstruct ==
  /\ app = "hand_processor"
  /\ pc = "new"
  /\ IF audioOk
     THEN /\ running' = TRUE
          /\ detectors' = [detectors EXCEPT !["ctor"] = "open"]
          /\ pc' = "hp_ready"
     ELSE /\ pc' = "aborted"
          /\ UNCHANGED <<running, detectors>>
  /\ UNCHANGED <<app, cameraOk, audioOk, frameQ, resultQ, wpc, wframe, wresults,
                 captured, cur, got, keyPressed, log, drainIdx, endCalls,
                 cleanUps, nones, emitted, skipped, handSamples, failedReads,
                 fnVars, recVars>>

\* start(): self.process_thread.start(); a second start raises RuntimeError
HPStart ==
  /\ pc = "hp_ready"
  /\ wpc' = IF wpc["hand"] = "idle"
            THEN [wpc EXCEPT !["hand"] = "check"]
            ELSE wpc
  /\ detectors' = IF wpc["hand"] = "idle"
                  THEN [detectors EXCEPT !["hand"] = "open"]
                  ELSE detectors
  /\ UNCHANGED <<app, cameraOk, audioOk, pc, running, frameQ, resultQ, wframe,
                 wresults,
                 captured, cur, got, keyPressed, log, drainIdx, endCalls,
                 cleanUps, nones, emitted, skipped, handSamples, failedReads,
                 fnVars, recVars>>

\* put_to_queue(frame): hand_frame_queue.put(frame, timeout=0.1); queue.Full
\* is raised to the caller
HPPutAs(frame, numbered) ==
  /\ pc = "hp_ready"
  /\ numbered => IF frame = None THEN nones < MaxNone ELSE captured < MaxFrames
  /\ nones' = IF numbered /\ frame = None THEN nones + 1 ELSE nones
  /\ captured' = IF numbered /\ frame # None THEN captured + 1 ELSE captured
  /\ frameQ' = IF QFull(frameQ["hand"])
               THEN frameQ
               ELSE [frameQ EXCEPT !["hand"] = QPut(frameQ["hand"], frame)]
  /\ UNCHANGED <<app, cameraOk, audioOk, pc, running, resultQ, wpc, wframe, wresults,
                 cur, got, keyPressed, log, drainIdx, endCalls,
                 cleanUps, emitted, skipped, obsVars, fnVars, recVars>>

\* get_from_queue(): hand_result_queue.get(timeout=0.1); queue.Empty is
\* raised to the caller
HPGetFromQueue ==
  /\ pc = "hp_ready"
  /\ IF resultQ["hand"] = << >>
     THEN UNCHANGED <<got, resultQ>>
     ELSE /\ got' = [got EXCEPT !["hand"] = QHead(resultQ["hand"])[2]]
          /\ resultQ' = [resultQ EXCEPT !["hand"] = QGet(resultQ["hand"])]
  /\ UNCHANGED <<app, cameraOk, audioOk, pc, running, frameQ, wpc, wframe, wresults,
                 captured, cur, keyPressed, log, drainIdx, endCalls,
                 cleanUps, nones, emitted, skipped, obsVars, fnVars, recVars>>

\* clean_up(): self.running.clear(), then the drain loop
HPCleanUp ==
  /\ pc = "hp_ready"
  /\ cleanUps < MaxCleanUps
  /\ cleanUps' = cleanUps + 1
  /\ running' = FALSE
  /\ log' = <<"clear">>
  /\ drainIdx' = 1
  /\ pc' = "drain"
  /\ UNCHANGED <<app, cameraOk, audioOk, frameQ, resultQ, wpc, wframe, wresults,
                 captured, cur, got, keyPressed, endCalls, nones, emitted, skipped, obsVars, fnVars, recVars>>

\* clean_up(): self.process_thread.join(timeout=2.0); Thread.join raises
\* RuntimeError when the thread was never started, which ends clean_up()
HPJoin ==
  /\ pc = "join"
  /\ IF wpc["hand"] = "idle"
     THEN /\ pc' = "hp_ready"
          /\ log' = Append(log, "raised")
     ELSE /\ pc' = "sound_end"
          /\ log' = Append(log, "join")
  /\ UNCHANGED <<app, cameraOk, audioOk, running, frameQ, resultQ, wpc, wframe, wresults,
                 captured, cur, got, keyPressed, drainIdx, endCalls,
                 cleanUps, nones, emitted, skipped, obsVars, fnVars, recVars>>

\* the caller passes a frame or None
HPPutToQueue == \E frame \in {None, Untagged} : HPPutAs(frame, FALSE)
HPPutNumbered == \E frame \in {None, captured + 1} : HPPutAs(frame, TRUE)

HPCalls == HPConstruct \/ HPStart \/ HPGetFromQueue \/ HPCleanUp \/ HPJoin

HPNext == HPCalls \/ HPPutToQueue
HPNextNumbered == HPCalls \/ HPPutNumbered

\* ==================================================== gesture interpreter
\* a landmark the detector did not deliver (indexing it raises)
Missing == -1
Coord == 0..MaxCoord

\* the hand landmarks judge_palm_up reads: index and pinky finger base (5, 17),
\* index and pinky fingertip (8, 20)
PalmIdx == {5, 8, 17, 20}

\* (variant: the same comparison for both hands)
JudgePalmUpSameDirection(lm, handedness) ==
  IF \E i \in PalmIdx : lm[i] = Missing
  THEN FALSE
  ELSE lm[8] < lm[20]

\* judge_palm_up(landmarks, handedness): x of landmark 8 against x of
\* landmark 20, `<` for "Left" and `>` otherwise; any exception -> False
JudgePalmUp(lm, handedness) ==
  IF \E i \in PalmIdx : lm[i] = Missing
  THEN FALSE
  ELSE IF handedness = "Left" THEN lm[8] < lm[20] ELSE lm[8] > lm[20]

\* the same landmarks judged as a left hand and as a right hand
JudgePalmUpCall ==
  /\ fn = "judge_palm_up"
  /\ ret = << >>
  /\ ret' = [h \in {"Left", "Right"} |-> JudgePalmUp(arg, h)]
  /\ UNCHANGED <<app, cameraOk, audioOk, pc, running, frameQ, resultQ, wpc,
                 wframe, wresults, captured, cur, got, keyPressed, log, drainIdx,
                 endCalls, cleanUps, nones, emitted, skipped, obsVars,
                 fn, arg, recVars>>

\* sqrt(dx**2 + dy**2) - 0.18, in hundredths
DepthOffset == 18
\* max(0, hand_z) * 2
DepthGain == 2
Dist == 0..MaxDist
Max(a, b) == IF a >= b THEN a ELSE b

\* (variant: the offset subtracted without the clamp)
HandZUnclamped(d) == (d - DepthOffset) * DepthGain

\* hand_z of process_hand_landmarks for a landmark-9-to-wrist distance d
HandZ(d) == Max(0, d - DepthOffset) * DepthGain

\* the depth estimate of two frames
HandZCall ==
  /\ fn = "hand_z"
  /\ ret = << >>
  /\ ret' = <<HandZ(arg[1]), HandZ(arg[2])>>
  /\ UNCHANGED <<app, cameraOk, audioOk, pc, running, frameQ, resultQ, wpc,
                 wframe, wresults, captured, cur, got, keyPressed, log, drainIdx,
                 endCalls, cleanUps, nones, emitted, skipped, obsVars,
                 fn, arg, recVars>>

\* the face landmarks _calculate_face_orientation reads: nose tip (4), outer
\* and inner corner of the eye on the left (33, 133) and on the right (263, 362)
FaceIdx == {4, 33, 133, 362, 263}
Point == [x : Coord, y : Coord]
\* the inner eye corners are read, their coordinates are not used
Origin == [x |-> 0, y |-> 0]
\* a face landmark the detector did not deliver
NoPoint == [x |-> Missing, y |-> Missing]
Abs(a) == IF a >= 0 THEN a ELSE -a

\* np.arctan2(y, x) * 180 / np.pi, by the range the angle falls in:
\* 0, 180, strictly between 0 and 180 ("positive"), strictly between -180
\* and 0 ("negative")
ArcTan2Deg(y, x) ==
  IF y > 0 THEN "positive"
  ELSE IF y < 0 THEN "negative"
  ELSE IF x >= 0 THEN "zero" ELSE "straight"

\* (variant: the eye distance taken without abs())
FaceOrientationSignedDistance(lm) ==
  IF \E i \in FaceIdx : lm[i] = NoPoint
  THEN <<"zero", "zero", "zero">>
  ELSE LET nose == lm[4]
           left == lm[33]
           right == lm[263]
           eye_distance2 == 2 * (left.x - right.x)
       IN <<ArcTan2Deg(2 * nose.x - (left.x + right.x), eye_distance2),
            ArcTan2Deg(2 * nose.y - (left.y + right.y), eye_distance2),
            ArcTan2Deg(right.y - left.y, right.x - left.x)>>

\* _calculate_face_orientation(landmarks) -> (yaw, pitch, roll); any exception
\* -> (0, 0, 0).  The arguments of the first two arctan2 are doubled, which
\* keeps the angle and the midpoint of the eyes an integer
FaceOrientation(lm) ==
  IF \E i \in FaceIdx : lm[i] = NoPoint
  THEN <<"zero", "zero", "zero">>
  ELSE LET nose == lm[4]
           left == lm[33]
           right == lm[263]
           eye_distance2 == 2 * Abs(left.x - right.x)
       IN <<ArcTan2Deg(2 * nose.x - (left.x + right.x), eye_distance2),
            ArcTan2Deg(2 * nose.y - (left.y + right.y), eye_distance2),
            ArcTan2Deg(right.y - left.y, right.x - left.x)>>

FaceOrientationCall ==
  /\ fn = "face_orientation"
  /\ ret = << >>
  /\ ret' = FaceOrientation(arg)
  /\ UNCHANGED <<app, cameraOk, audioOk, pc, running, frameQ, resultQ, wpc,
                 wframe, wresults, captured, cur, got, keyPressed, log, drainIdx,
                 endCalls, cleanUps, nones, emitted, skipped, obsVars,
                 fn, arg, recVars>>

\* max((0.7 - hand_z) * 2, 0), in hundredths
DualOffset == 70
DualGain == 2
\* hand_z = 0.5 without a detection of the second camera
DefaultDepth == 50

\* (variant: the proxy taken without the clamp at 0)
DualHandZUnclamped(x2) ==
  IF x2 = Missing THEN DefaultDepth ELSE (DualOffset - x2) * DualGain

\* hand_z of process_hand_landmarks2: x2 is landmark[9].x of the first hand
\* of the second camera, Missing when that camera has no hand in the frame
DualHandZ(x2) ==
  IF x2 = Missing THEN DefaultDepth ELSE Max((DualOffset - x2) * DualGain, 0)

\* process_hand_landmarks2 for the first hand of a result: arg.z is the z of
\* landmark 9 as the worker emitted it.  landmarks.landmark[9].z = hand_z
\* writes into the landmark set; hand_z goes to sound_generator.new_notes
ProcessHandLandmarks2Call ==
  /\ fn = "process_hand_landmarks2"
  /\ ret = << >>
  /\ ret' = [z |-> DualHandZ(arg.x2), depth |-> DualHandZ(arg.x2)]
  /\ UNCHANGED <<app, cameraOk, audioOk, pc, running, frameQ, resultQ, wpc,
                 wframe, wresults, captured, cur, got, keyPressed, log, drainIdx,
                 endCalls, cleanUps, nones, emitted, skipped, obsVars,
                 fn, arg, recVars>>

\* the inputs of the gesture functions
GestureInit ==
  /\ PipelineInit
  /\ app = "hand_processor"
  /\ audioOk
  /\ ret = << >>
  /\ \/ /\ fn = "judge_palm_up"
        /\ arg \in [PalmIdx -> Coord \cup {Missing}]
     \/ /\ fn = "hand_z"
        /\ arg \in Dist \X Dist
     \/ /\ fn = "process_hand_landmarks2"
        /\ arg \in [z : Coord, x2 : (0..MaxPos) \cup {Missing}]
     \/ /\ fn = "face_orientation"
        /\ arg \in {lm \in [FaceIdx -> Point \cup {NoPoint}] :
                      \A i \in {133, 362} : lm[i] \in {Origin, NoPoint}}

GestureNext ==
  \/ JudgePalmUpCall \/ HandZCall \/ FaceOrientationCall
  \/ ProcessHandLandmarks2Call

\* ============================================== finalisation of the logs
\* the files the finalisation writes
Outputs == {"face_csv", "hand_csv", "plot", "animation"}
\* the log an output is made from
LogOf(o) == IF o \in {"face_csv", "plot"} THEN "face" ELSE "hand"

\* (variant: the face log is written without the test for data; on an empty
\* log df['timestamp'].iloc[0] raises inside the try block)
SaveDataCallUnguarded ==
  /\ fn = "save"
  /\ ret' = IF arg.face = 0 \/ "face_csv" \in arg.fails
            THEN ret
            ELSE ret \cup {"face_csv"}
                     \cup (IF arg.hand > 0 /\ "hand_csv" \notin arg.fails
                           THEN {"hand_csv"} ELSE {})
  /\ fn' = "plots"
  /\ UNCHANGED <<app, cameraOk, audioOk, pc, running, frameQ, resultQ, wpc,
                 wframe, wresults, captured, cur, got, keyPressed, log, drainIdx,
                 endCalls, cleanUps, nones, emitted, skipped, obsVars, arg,
                 recVars>>

\* _save_data(): one try block around both files.  if face_orientation_data:
\* ... to_csv(face_orientation.csv); if hand_trajectory_data: ...
\* to_csv(hand_trajectories.csv); an exception leaves the block and is logged
SaveDataCall ==
  /\ fn = "save"
  /\ ret' = IF arg.face > 0 /\ "face_csv" \in arg.fails
            THEN ret
            ELSE ret \cup (IF arg.face > 0 THEN {"face_csv"} ELSE {})
                     \cup (IF arg.hand > 0 /\ "hand_csv" \notin arg.fails
                           THEN {"hand_csv"} ELSE {})
  /\ fn' = "plots"
  /\ UNCHANGED <<app, cameraOk, audioOk, pc, running, frameQ, resultQ, wpc,
                 wframe, wresults, captured, cur, got, keyPressed, log, drainIdx,
                 endCalls, cleanUps, nones, emitted, skipped, obsVars, arg,
                 recVars>>

\* _create_face_orientation_plots(): returns at once without data; the rest
\* is in a try block of its own
CreatePlotsCall ==
  /\ fn = "plots"
  /\ ret' = IF arg.face > 0 /\ "plot" \notin arg.fails
            THEN ret \cup {"plot"} ELSE ret
  /\ fn' = "anim"
  /\ UNCHANGED <<app, cameraOk, audioOk, pc, running, frameQ, resultQ, wpc,
                 wframe, wresults, captured, cur, got, keyPressed, log, drainIdx,
                 endCalls, cleanUps, nones, emitted, skipped, obsVars, arg,
                 recVars>>

\* _create_3d_trajectory_animation(): returns at once without data; the rest
\* is in a try block of its own
CreateAnimationCall ==
  /\ fn = "anim"
  /\ ret' = IF arg.hand > 0 /\ "animation" \notin arg.fails
            THEN ret \cup {"animation"} ELSE ret
  /\ fn' = "finalised"
  /\ UNCHANGED <<app, cameraOk, audioOk, pc, running, frameQ, resultQ, wpc,
                 wframe, wresults, captured, cur, got, keyPressed, log, drainIdx,
                 endCalls, cleanUps, nones, emitted, skipped, obsVars, arg,
                 recVars>>

\* the logs at the end of a run (their lengths) and the files that cannot
\* be written
FinaliseInit ==
  /\ PipelineInit
  /\ app = "main2"
  /\ audioOk /\ cameraOk = [m \in Workers |-> TRUE]
  /\ fn = "save"
  /\ arg \in [face : 0..MaxLog, hand : 0..MaxLog, fails : SUBSET Outputs]
  /\ ret = {}

FinaliseNext == SaveDataCall \/ CreatePlotsCall \/ CreateAnimationCall

\* ====================================================== session recorder
\* samples and face rows recorded in a session
MaxRecords == 4
\* samples of the animated timeline
MaxSamples == 33
TrailLength == 30
\* enumerate(multi_hand_landmarks) with max_num_hands=2
HandIds == {0, 1}
\* landmark 9 of a detected hand, as far as the recorder reads it
NoLandmark == [x |-> Missing, y |-> Missing, z |-> Missing]
RecPoints == {[x |-> 0, y |-> 1, z |-> 2], [x |-> 2, y |-> 0, z |-> 1]}
Columns == {"timestamp", "x", "y", "z"}
EmptyLog == [c \in Columns |-> << >>]

\* samples recorded for a hand id
Samples(data, h) == IF h \in DOMAIN data THEN Len(data[h]["timestamp"]) ELSE 0

\* samples and face rows recorded so far
Recorded ==
  Samples(hand_trajectory_data, 0) + Samples(hand_trajectory_data, 1)
    + Len(face_orientation_data)

\* the dictionary with an entry for hand_id, created empty when new
WithKey(data, hand_id) ==
  [h \in DOMAIN data \cup {hand_id} |->
     IF h \in DOMAIN data THEN data[h] ELSE EmptyLog]

\* (variant: landmark 9 is looked up after the timestamp was appended)
ProcessHandDataLateLookup(landmark_9, hand_id) ==
  /\ fn = "record"
  /\ Recorded < MaxRecords
  /\ clock' \in {clock, clock + 1}
  /\ LET data == WithKey(hand_trajectory_data, hand_id)
         row == [timestamp |-> clock', x |-> landmark_9.x,
                 y |-> landmark_9.y, z |-> landmark_9.z]
     IN hand_trajectory_data' =
          [data EXCEPT ![hand_id] =
             [c \in Columns |->
                IF landmark_9 = NoLandmark /\ c # "timestamp"
                THEN data[hand_id][c]
                ELSE Append(data[hand_id][c], row[c])]]
  /\ UNCHANGED <<app, cameraOk, audioOk, pc, running, frameQ, resultQ, wpc,
                 wframe, wresults, captured, cur, got, keyPressed, log,
                 drainIdx, endCalls, cleanUps, nones, emitted, skipped,
                 obsVars, fnVars, face_orientation_data>>

\* _process_hand_data(landmarks, hand_id): landmark_9 = landmarks.landmark[9]
\* (raises when missing, before anything is changed), timestamp = time.time(),
\* the entry of hand_id is created when new, one value is appended to each of
\* the four columns; an exception is logged
ProcessHandData(landmark_9, hand_id) ==
  /\ fn = "record"
  /\ Recorded < MaxRecords
  /\ IF landmark_9 = NoLandmark
     THEN UNCHANGED <<hand_trajectory_data, clock>>
     ELSE /\ clock' \in {clock, clock + 1}
          /\ LET data == WithKey(hand_trajectory_data, hand_id)
                 row == [timestamp |-> clock', x |-> landmark_9.x,
                         y |-> landmark_9.y, z |-> landmark_9.z]
             IN hand_trajectory_data' =
                  [data EXCEPT ![hand_id] =
                     [c \in Columns |-> Append(data[hand_id][c], row[c])]]
  /\ UNCHANGED <<app, cameraOk, audioOk, pc, running, frameQ, resultQ, wpc,
                 wframe, wresults, captured, cur, got, keyPressed, log,
                 drainIdx, endCalls, cleanUps, nones, emitted, skipped,
                 obsVars, fnVars, face_orientation_data>>

\* yaw, pitch and roll of a face, as far as the recorder stores them
RecAngles == {[yaw |-> 0, pitch |-> 1, roll |-> 2]}
\* _calculate_face_orientation raised
NoAngles == [yaw |-> Missing, pitch |-> Missing, roll |-> Missing]

\* the face branch of the main loop: the orientation is computed and one row
\* [time.time(), yaw, pitch, roll] is appended; an exception is logged
RecordFaceOrientation(angles) ==
  /\ fn = "record"
  /\ Recorded < MaxRecords
  /\ IF angles = NoAngles
     THEN UNCHANGED <<face_orientation_data, clock>>
     ELSE /\ clock' \in {clock, clock + 1}
          /\ face_orientation_data' =
               Append(face_orientation_data,
                      <<clock', angles.yaw, angles.pitch, angles.roll>>)
  /\ UNCHANGED <<app, cameraOk, audioOk, pc, running, frameQ, resultQ, wpc,
                 wframe, wresults, captured, cur, got, keyPressed, log,
                 drainIdx, endCalls, cleanUps, nones, emitted, skipped,
                 obsVars, fnVars, hand_trajectory_data>>

\* the samples of one hand, one row per index of its columns
LogRows(data, h) ==
  IF h \in DOMAIN data
  THEN [i \in 1..Len(data[h]["timestamp"]) |->
          [c \in Columns |-> data[h][c][i]]]
  ELSE << >>

\* for data in hand_trajectory_data.values(): the columns of every hand are
\* concatenated, hand after hand
MergedRows(data) == LogRows(data, 0) \o LogRows(data, 1)

\* row put after the rows of a sorted sequence that are not later than it
InsertByTime(sorted, row) ==
  LET before == {i \in 1..Len(sorted) : sorted[i]["timestamp"] <= row["timestamp"]}
      k == Cardinality(before)
  IN SubSeq(sorted, 1, k) \o <<row>> \o SubSeq(sorted, k + 1, Len(sorted))

RECURSIVE SortByTime(_)
\* np.argsort(timestamps) applied to the four arrays (insertion sort, as numpy
\* sorts short arrays)
SortByTime(rows) ==
  IF rows = << >> THEN << >>
  ELSE InsertByTime(SortByTime(SubSeq(rows, 1, Len(rows) - 1)), rows[Len(rows)])

\* _create_3d_trajectory_animation up to the sorted arrays: returns when no
\* hand was recorded, otherwise merges and sorts; the logs are only read
CreateAnimationMerge ==
  /\ fn = "record"
  /\ fn' = "animate"
  /\ ret' = IF DOMAIN hand_trajectory_data = {} THEN << >>
            ELSE SortByTime(MergedRows(hand_trajectory_data))
  /\ UNCHANGED <<app, cameraOk, audioOk, pc, running, frameQ, resultQ, wpc,
                 wframe, wresults, captured, cur, got, keyPressed, log,
                 drainIdx, endCalls, cleanUps, nones, emitted, skipped,
                 obsVars, arg, recVars>>

\* update(frame) of the animation over num_frames = len(timestamps) samples:
\* the slice [start_idx:end_idx] of the sorted arrays is drawn
AnimationUpdateCall ==
  /\ fn = "update"
  /\ ret = << >>
  /\ LET start_idx == Max(0, arg.frame - TrailLength)
         end_idx == arg.frame + 1
     IN ret' = IF end_idx > arg.num_frames
               THEN [start_idx |-> Max(0, arg.num_frames - TrailLength),
                     end_idx |-> arg.num_frames]
               ELSE [start_idx |-> start_idx, end_idx |-> end_idx]
  /\ UNCHANGED <<app, cameraOk, audioOk, pc, running, frameQ, resultQ, wpc,
                 wframe, wresults, captured, cur, got, keyPressed, log,
                 drainIdx, endCalls, cleanUps, nones, emitted, skipped,
                 obsVars, fn, arg, recVars>>

RecorderInit ==
  /\ PipelineInit
  /\ app = "main2"
  /\ audioOk /\ cameraOk = [m \in Workers |-> TRUE]
  /\ ret = << >>
  /\ \/ fn = "record" /\ arg = << >>
     \/ /\ fn = "update"
        \* FuncAnimation(frames=num_frames) calls update(0..num_frames-1)
        /\ \E n \in 1..MaxSamples : \E f \in 0..(n - 1) :
             arg = [num_frames |-> n, frame |-> f]

RecorderNext ==
  \/ \E landmark_9 \in RecPoints \cup {NoLandmark}, hand_id \in HandIds :
       ProcessHandData(landmark_9, hand_id)
  \/ \E angles \in RecAngles \cup {NoAngles} : RecordFaceOrientation(angles)
  \/ CreateAnimationMerge
  \/ AnimationUpdateCall

\* ========================================================= specifications
\* streams of any length, frames without identity
Next == OrchNext \/ HPNext \/ UserQuit \/ WorkerNext

\* numbered frames, streams of at most MaxFrames frames
NextNumbered == OrchNextNumbered \/ HPNextNumbered \/ UserQuit \/ WorkerNext

\* every thread that can run does run
Fairness ==
  /\ WF_vars(OrchNext)
  /\ WF_vars(HPJoin)
  /\ \A m \in Workers : WF_vars(WorkerStep(m))

\* a detector that is called again and again does not raise every time
DetectorFairness == \A m \in Workers : SF_vars(WorkerDetect(m, TRUE))


Spec == Init /\ [][Next]_vars
FairSpec == Spec /\ Fairness
\* only the orchestrating thread is known to run
OrchFairSpec == Spec /\ WF_vars(OrchNext)
StrongFairSpec == FairSpec /\ DetectorFairness
NumberedSpec == Init /\ [][NextNumbered]_vars
GestureSpec == GestureInit /\ [][GestureNext]_vars
FinaliseSpec == FinaliseInit /\ [][FinaliseNext]_vars
RecorderSpec == RecorderInit /\ [][RecorderNext]_vars

\* ================================================================= claims
IsPrefix(s, t) == Len(s) <= Len(t) /\ \A i \in 1..Len(s) : s[i] = t[i]

\* the order the spec prescribes, in the steps each component owns
ShutdownSequence ==
  IF app = "main2"
  THEN <<"clear", "drain", "join", "join", "save", "plots", "anim", "end",
         "release_writers", "release_captures">>
  ELSE <<"clear", "drain", "join", "end">>

\* run() has returned, or a call of clean_up() has returned or raised
ShutdownReturned == pc = "done" \/ (pc = "hp_ready" /\ cleanUps > 0)

\* C1: on every exit path of run() and in clean_up() the shutdown steps happen
\* in the order clear flag, drain, join, flush recorder and audio, release
\* handles, and none of them is skipped.
C1_ShutdownOrderComplete ==
  /\ IsPrefix(log, ShutdownSequence)
  /\ ShutdownReturned => log = ShutdownSequence

\* C2: a worker never blocks indefinitely on its output channel: whenever it
\* is at the put of a result it has a step to take (the put, or the drop after
\* the timeout).
C2_WorkerNeverBlockedOnOutput ==
  \A m \in Workers : wpc[m] = "put" => ENABLED WorkerPut(m)

\* C3: sound_generator.end() is invoked exactly once per session on every
\* shutdown path: never a second time, and never skipped once the shutdown
\* code has returned.
C3_EndExactlyOnce ==
  /\ endCalls <= 1
  /\ ShutdownReturned => endCalls = 1

\* C4: a worker never terminates because of a bad input: None sentinels and
\* frames on which detection raises produce no result, the worker stays in
\* its loop while the flag is set, and it goes on to emit later results.
C4_WorkerSurvivesBadInput ==
  \A m \in Workers :
    /\ wpc[m] = "stopped" => ~running
    /\ wpc[m] \in {"detect", "put"} => wframe[m] # None
    /\ \A i \in 1..Len(resultQ[m]) : resultQ[m][i][2] # None
\* a worker that skipped an input holds the result of a later frame and is
\* free to enqueue it, the flag still set
C4_Witness ==
  \E m \in Workers :
    skipped[m] /\ running /\ wpc[m] = "put" /\ ~QFull(resultQ[m])

AllWorkersStopped == \A m \in Workers : wpc[m] \in {"idle", "stopped"}

\* C5: once the running flag has been cleared every worker eventually leaves
\* its loop, and a worker puts at most one more result after the clearing.
C5_WorkersStopAfterClear ==
  /\ [](\A m \in Workers : emitted[m] <= 1)
  /\ (~running ~> AllWorkersStopped)
\* a worker has stopped after emitting the result it had in flight
C5_Witness ==
  \E m \in Workers : emitted[m] = 1 /\ wpc[m] = "stopped" /\ ~running

\* C6: the orchestrator never blocks on a channel: in every state before
\* run() has ended it has a step to take, and put_to_queue / get_from_queue
\* always return to their caller.
C6_OrchestratorNeverBlocked ==
  /\ (app = "main2" /\ pc \notin {"done", "aborted"}) => ENABLED OrchNext
  /\ pc = "hp_ready" => ENABLED HPPutToQueue /\ ENABLED HPGetFromQueue
\* the orchestrator is about to push into a full queue
C6_Witness == pc = "put_hand" /\ QFull(frameQ["hand"])

\* frames of a queue, the None sentinels left out
Frames(q) == SelectSeq(q, LAMBDA x : x # None)
\* the frames of the results in a result queue
ResultFrames(q) == [i \in 1..Len(q) |-> q[i][2]]
Increasing(q) == \A i, j \in 1..Len(q) : i < j => q[i] < q[j]
One(x) == IF x = None THEN << >> ELSE <<x>>
\* the frames of one modality from the newest consumed to the newest submitted
Pipeline(m) ==
  One(got[m]) \o ResultFrames(resultQ[m]) \o One(wframe[m]) \o Frames(frameQ[m])

\* C7: within one modality results are emitted, and dequeued by the
\* orchestrator, in the order the frames were submitted.
C7_ResultsInSubmissionOrder == \A m \in Workers : Increasing(Pipeline(m))
\* a result was dequeued while two more wait behind it
C7_Witness ==
  \E m \in Workers : got[m] # None /\ Len(resultQ[m]) >= 2 /\ frameQ[m] # << >>

\* C8: each of the four channels holds at most its capacity.
C8_QueuesBounded ==
  \A m \in Workers :
    Len(frameQ[m]) <= QueueMaxSize /\ Len(resultQ[m]) <= QueueMaxSize
\* all four channels are full at once
C8_Witness ==
  \A m \in Workers : QFull(frameQ[m]) /\ QFull(resultQ[m])

\* C9: no worker thread is ever started in a session whose camera or audio
\* device was unavailable.
C9_NoWorkerWithoutDevices ==
  (\E m \in Workers : wpc[m] # "idle") =>
     (audioOk /\ \A m \in Workers : cameraOk[m])

\* C10: once the user has issued the quit signal while the main loop runs,
\* the loop eventually exits into the shutdown sequence.
C10_QuitEndsTheLoop ==
  (keyPressed /\ pc \in LoopPcs) ~> (pc \notin LoopPcs)

\* C11: a run that was fed N frames, each showing one detected hand, ends
\* with exactly N samples in the hand trajectory log.
C11_OneSamplePerFrame ==
  (app = "main2" /\ pc = "done") => handSamples = captured

\* C12: on the same landmarks, judge_palm_up for a "Left" hand returns the
\* negation of what it returns for a "Right" hand, whatever the x of the
\* index fingertip and of the pinky fingertip, equal ones included.
C12_LeftNegatesRight ==
  (fn = "judge_palm_up" /\ ret # << >> /\ \A i \in PalmIdx : arg[i] # Missing)
    => (ret["Left"] = ~ret["Right"])

\* C12 as the code has it: the two answers are negations of each other when
\* the two fingertips differ in x, and both are False when they are equal
C12_LeftNegatesRightUnlessEqual ==
  (fn = "judge_palm_up" /\ ret # << >> /\ \A i \in PalmIdx : arg[i] # Missing)
    => IF arg[8] # arg[20]
       THEN ret["Left"] = ~ret["Right"]
       ELSE ~ret["Left"] /\ ~ret["Right"]

C12_Witness ==
  /\ fn = "judge_palm_up"
  /\ ret # << >>
  /\ \A i \in PalmIdx : arg[i] # Missing
  /\ arg[8] < arg[20]
  /\ ret["Left"] /\ ~ret["Right"]

\* C13: the single-camera depth estimate is 0 for every distance at or below
\* the offset 0.18, is never negative, and above the offset does not grow
\* when the distance grows (monotonically non-increasing).
C13_DepthNonIncreasing ==
  (fn = "hand_z" /\ ret # << >>)
    => /\ arg[1] <= DepthOffset => ret[1] = 0
       /\ ret[1] >= 0
       /\ (DepthOffset < arg[1] /\ arg[1] <= arg[2]) => ret[1] >= ret[2]

\* C13 as the code has it: above the offset the estimate does not shrink
\* when the distance grows (monotonically non-decreasing)
C13_DepthNonDecreasing ==
  (fn = "hand_z" /\ ret # << >>)
    => /\ arg[1] <= DepthOffset => ret[1] = 0
       /\ ret[1] >= 0
       /\ (DepthOffset < arg[1] /\ arg[1] <= arg[2]) => ret[1] <= ret[2]

C13_Witness ==
  /\ fn = "hand_z"
  /\ ret # << >>
  /\ DepthOffset < arg[1] /\ arg[1] < arg[2]
  /\ 0 < ret[1] /\ ret[1] < ret[2]

\* C14: finalising with an empty log raises nothing (all three steps run to
\* their end), writes no file for the empty log and, when every write
\* succeeds, still writes every file of the log that has samples.
C14_EmptyLogSkipsOnlyItsOutputs ==
  fn = "finalised" =>
    \A o \in Outputs :
      /\ o \in ret => arg[LogOf(o)] > 0
      /\ (arg.fails = {} /\ arg[LogOf(o)] > 0) => o \in ret

C14_Witness ==
  /\ fn = "finalised"
  /\ arg.face = 0 /\ arg.hand > 0 /\ arg.fails = {}
  /\ ret = {"hand_csv", "animation"}

\* C15: a file that cannot be written costs that file only: every other
\* file whose log has samples, and whose own write succeeds, is written.
C15_WriteFailureIsLocal ==
  fn = "finalised" =>
    \A o \in Outputs :
      (arg[LogOf(o)] > 0 /\ o \notin arg.fails) => o \in ret

\* C16: a failed camera read ends the run, and it is the second failed read
\* in a row that does: a run that ended on a failed read has seen two of
\* them in a row.
C16_SecondFailedReadEndsStream ==
  (pc \notin LoopPcs /\ failedReads > 0) => failedReads >= 2

\* C16 as the code has it: the first failed read ends the main loop, and the
\* shutdown sequence then runs to its end
C16_FirstFailedReadEndsStream ==
  /\ [](failedReads > 0 => (failedReads = 1 /\ pc \notin LoopPcs))
  /\ (failedReads > 0) ~> (pc = "done")

C16_Witness == failedReads = 1 /\ pc = "done"

\* the face looks straight ahead as far as the claim says: nose tip x at the
\* midpoint of the outer eye corners, both outer eye corners at the same y
NoseCentredEyesLevel(lm) ==
  /\ \A i \in FaceIdx : lm[i] # NoPoint
  /\ 2 * lm[4].x = lm[33].x + lm[263].x
  /\ lm[33].y = lm[263].y

AllFullAndBlocked ==
  /\ pc \in {"loop", "put_face"}
  /\ running
  /\ \A m \in Workers :
       QFull(frameQ[m]) /\ QFull(resultQ[m]) /\ wpc[m] = "put"

\* C18: the pipeline cannot livelock: no state is reached in which all four
\* queues are full and both workers are blocked, and from every state of the
\* running main loop the orchestrator eventually consumes a result (or the
\* stream ends).
C18_NoLivelock ==
  /\ []~AllFullAndBlocked
  /\ (pc \in LoopPcs) ~> (pc = "process" \/ pc \notin LoopPcs)

\* C19: frame submission is atomic per tick: once the face frame of a tick
\* has been accepted (the loop stands before the hand put), the iteration
\* goes on only by enqueuing the hand frame of that tick, so both input
\* queues accept the same number of frames.
C19_SubmissionAtomic ==
  [][(pc = "put_hand" /\ pc' # "put_hand")
       => frameQ'["hand"] = QPut(frameQ["hand"], cur["hand"])]_vars

\* C20: a result the main loop has taken from a result queue is processed in
\* the same iteration: an iteration that holds a dequeued result ends only
\* through the processing step.
C20_DequeuedResultProcessed ==
  [][(pc \in LoopPcs /\ pc' \in {"loop", "fin_clear"}
        /\ \E m \in Workers : got[m] # None)
       => pc = "process"]_vars

\* C21: no channel is used after its reader has stopped reading it: no worker
\* puts a result after the shutdown has drained the queues, so when run()
\* has ended and the workers have stopped all four queues are empty.
C21_QueuesEmptyAfterShutdown ==
  (app = "main2" /\ pc = "done" /\ AllWorkersStopped)
    => \A m \in Workers : frameQ[m] = << >> /\ resultQ[m] = << >>

\* every worker thread that was started has left its loop
StartedWorkersStopped ==
  \A m \in (IF app = "main2" THEN Workers ELSE {"hand"}) : wpc[m] = "stopped"

\* the shutdown code has run to its last statement
CleanUpCompleted == pc = "done" \/ (pc = "hp_ready" /\ endCalls > 0)

\* C22: every detector the component acquires is released: a worker's
\* detector is open exactly while the worker runs, and once the clean-up has
\* completed and the workers have stopped no detector instance is open, the
\* one acquired at construction included.
C22_DetectorsReleased ==
  /\ \A m \in Workers :
       /\ wpc[m] = "idle" => detectors[m] = "none"
       /\ wpc[m] = "stopped" => detectors[m] = "closed"
       /\ wpc[m] \notin {"idle", "stopped"} => detectors[m] = "open"
  /\ (CleanUpCompleted /\ StartedWorkersStopped)
       => \A d \in DetectorOwners : detectors[d] # "open"

\* C23: a landmark set is immutable once a worker has produced it: after the
\* orchestrator-side processing the z of landmark 9 is the z the worker
\* emitted.
C23_LandmarksUnchanged ==
  (fn = "process_hand_landmarks2" /\ ret # << >>) => ret.z = arg.z

\* C26: in dual-camera mode the depth passed to the sound mapper is
\* max((0.7 - x) * 2, 0) for the x of landmark 9 seen by the second camera,
\* exactly 0.5 when that camera has no hand, and never negative.
C26_DualCameraDepth ==
  (fn = "process_hand_landmarks2" /\ ret # << >>)
    => /\ ret.depth >= 0
       /\ arg.x2 = Missing => ret.depth = 50
       /\ (arg.x2 # Missing /\ arg.x2 <= 70) => ret.depth = 140 - 2 * arg.x2
       /\ (arg.x2 # Missing /\ arg.x2 > 70) => ret.depth = 0

C26_Witness ==
  /\ fn = "process_hand_landmarks2"
  /\ ret # << >>
  /\ arg.x2 # Missing /\ arg.x2 > 70
  /\ ret.depth = 0

\* C24: every result on an output queue pairs the landmarks with the frame
\* they were detected on: in each queued pair the landmarks are those of the
\* pair's frame, which is a frame the worker took from its input queue.
C24_ResultPairsItsOwnFrame ==
  \A m \in Workers :
    /\ \A i \in 1..Len(resultQ[m]) :
         /\ resultQ[m][i][1] = resultQ[m][i][2]
         /\ resultQ[m][i][2] \in 1..captured
    /\ wpc[m] = "put" => wresults[m] = wframe[m]
\* a result waits in a queue while the main loop has read a later frame
C24_Witness ==
  \E m \in Workers :
    /\ resultQ[m] # << >>
    /\ resultQ[m][1] = <<1, 1>>
    /\ cur[m] > 1
    /\ wpc[m] = "put" /\ wframe[m] = 2

\* C25: the session logs are append-only and consistent: for each hand the
\* four columns have the same length; a recording step adds one sample to
\* one hand's log (or one row to the face log) or changes nothing; a recorded
\* sample is never modified, reordered or removed.
C25_LogsAppendOnly ==
  /\ [](\A h \in DOMAIN hand_trajectory_data : \A c \in Columns :
          Len(hand_trajectory_data[h][c]) = Samples(hand_trajectory_data, h))
  /\ [][/\ \A h \in DOMAIN hand_trajectory_data :
             /\ h \in DOMAIN hand_trajectory_data'
             /\ \A c \in Columns :
                  IsPrefix(hand_trajectory_data[h][c],
                           hand_trajectory_data'[h][c])
         /\ IsPrefix(face_orientation_data, face_orientation_data')
         /\ \/ /\ hand_trajectory_data' = hand_trajectory_data
               /\ Len(face_orientation_data') <= Len(face_orientation_data) + 1
            \/ \E k \in HandIds :
                 /\ face_orientation_data' = face_orientation_data
                 /\ Samples(hand_trajectory_data', k)
                      = Samples(hand_trajectory_data, k) + 1
                 /\ \A g \in HandIds \ {k} :
                      Samples(hand_trajectory_data', g)
                        = Samples(hand_trajectory_data, g)]_vars
\* both hands have samples, recorded in turns
C25_Witness ==
  /\ DOMAIN hand_trajectory_data = HandIds
  /\ Samples(hand_trajectory_data, 0) = 2
  /\ Samples(hand_trajectory_data, 1) = 1
  /\ hand_trajectory_data[0]["x"] = <<0, 2>>
  /\ hand_trajectory_data[0]["timestamp"][2] > hand_trajectory_data[1]["timestamp"][1]
  /\ Len(face_orientation_data) = 1

IsSortedByTime(rows) ==
  \A i \in 1..(Len(rows) - 1) : rows[i]["timestamp"] <= rows[i + 1]["timestamp"]
Occurrences(rows, r) == Cardinality({i \in 1..Len(rows) : rows[i] = r})
IsPermutation(a, b) ==
  /\ Len(a) = Len(b)
  /\ \A i \in 1..Len(a) : Occurrences(a, a[i]) = Occurrences(b, a[i])

\* C27: the animation's timeline is the samples of all hands ordered by
\* non-decreasing timestamp, a permutation of the recorded samples, and the
\* trail drawn for a frame is at most 30 consecutive samples ending at the
\* current sample.
C27_TrailWindow ==
  /\ (fn = "animate" /\ ret # << >>) =>
        /\ IsSortedByTime(ret)
        /\ IsPermutation(ret, MergedRows(hand_trajectory_data))
  /\ (fn = "update" /\ ret # << >>) =>
        /\ ret.end_idx = arg.frame + 1
        /\ ret.start_idx >= 0
        /\ ret.end_idx - ret.start_idx <= 30

====
